---- MODULE Spec2Model ----
(***************************************************************************)
(* Model of the Walme bot (src/index.js): the scheduler loop runBot, the   *)
(* account runner processAccount, the retry wrapper retryApiRequest, the   *)
(* error classifier isProxyError and the proxy parser createProxyAgent.    *)
(*                                                                         *)
(* The program is one asynchronous control flow.  A state of the model is  *)
(* the program suspended at an await: a file read, an HTTP call in flight, *)
(* a timer, or a settled async function whose caller has not resumed yet.  *)
(* Every action is the code that runs from one await to the next.          *)
(*                                                                         *)
(* Strings the code searches or splits are sequences of one-character      *)
(* strings; strings the code only compares are TLA+ strings.               *)
(***************************************************************************)
EXTENDS Integers, Sequences, FiniteSets, TLC

\* ------------------------------------------------------------------------
\* Bounds of the model
\* ------------------------------------------------------------------------
\* largest number of tokens in a modelled tokens.txt
MaxTokens == 2
\* largest number of proxies in a modelled proxies.txt
MaxProxies == 2

\* ------------------------------------------------------------------------
\* Program constants
\* ------------------------------------------------------------------------
MAX_RETRIES == 3
RETRY_DELAY == 3000
\* the "unhealthy" threshold of runBot's healthyProxies filter
UNHEALTHY == 3

PROXY_ERROR_CODES ==
    { "ECONNRESET", "ETIMEDOUT", "ECONNREFUSED", "EHOSTUNREACH",
      "ENOTFOUND", "ESOCKETTIMEDOUT", "EPROTO", "ECONNABORTED",
      "EADDRNOTAVAIL", "ENETUNREACH" }

\* ------------------------------------------------------------------------
\* String helpers (JavaScript String methods on character sequences)
\* ------------------------------------------------------------------------
\* s.includes(pat)
Includes(s, pat) ==
    \E k \in 0..(Len(s) - Len(pat)) : SubSeq(s, k + 1, k + Len(pat)) = pat

\* index of the first occurrence of character c in s, 0 when absent
IndexOf(s, c) ==
    IF \E k \in 1..Len(s) : s[k] = c
    THEN CHOOSE k \in 1..Len(s) : s[k] = c /\ \A j \in 1..(k - 1) : s[j] # c
    ELSE 0

\* s.split(c) for a one-character separator
RECURSIVE Split(_, _)
Split(s, c) ==
    LET k == IndexOf(s, c)
    IN  IF k = 0 THEN << s >>
        ELSE << SubSeq(s, 1, k - 1) >> \o Split(SubSeq(s, k + 1, Len(s)), c)

\* sep-joined concatenation of a sequence of strings: parts.join(sep)
RECURSIVE Join(_, _)
Join(parts, sep) ==
    IF Len(parts) = 0 THEN << >>
    ELSE IF Len(parts) = 1 THEN parts[1]
    ELSE parts[1] \o sep \o Join(Tail(parts), sep)

WhiteSpace == { " " }

\* s.trim()
RECURSIVE Trim(_)
Trim(s) ==
    IF Len(s) = 0 THEN s
    ELSE IF s[1] \in WhiteSpace THEN Trim(Tail(s))
    ELSE IF s[Len(s)] \in WhiteSpace THEN Trim(SubSeq(s, 1, Len(s) - 1))
    ELSE s

\* ------------------------------------------------------------------------
\* Errors of outbound calls
\* ------------------------------------------------------------------------
\* An error object: code "" is an absent code, status 0 an absent response.
NetworkMessages ==
    { <<"s","o","c","k","e","t"," ","h","a","n","g"," ","u","p">>,
      <<"C","l","i","e","n","t"," ","n","e","t","w","o","r","k"," ","s","o","c","k","e","t"," ","d","i","s","c","o","n","n","e","c","t","e","d">>,
      <<"r","e","a","d"," ","E","C","O","N","N","R","E","S","E","T">>,
      <<"c","o","n","n","e","c","t"," ","E","T","I","M","E","D","O","U","T">>,
      <<"c","o","n","n","e","c","t"," ","E","C","O","N","N","R","E","F","U","S","E","D">>,
      <<"g","e","t","a","d","d","r","i","n","f","o"," ","E","N","O","T","F","O","U","N","D">>,
      <<"E","C","O","N","N">>,
      <<"E","T","I","M","E","O","U","T">>,
      <<"E","P","R","O","T","O">>,
      <<"E","C","O","N","N","A","B","O","R","T","E","D">>,
      <<"E","R","R","_","P","R","O","X","Y">> }

PROXY_STATUSES == { 407, 502, 503, 504 }

\* a classifier without the check of the HTTP status
isProxyErrorNoStatus(error) ==
    IF error.isNull THEN FALSE
    ELSE IF error.code # "" /\ error.code \in PROXY_ERROR_CODES THEN TRUE
    ELSE Len(error.message) > 0
            /\ \E m \in NetworkMessages : Includes(error.message, m)

isProxyError(error) ==
    IF error.isNull THEN FALSE
    ELSE IF error.code # "" /\ error.code \in PROXY_ERROR_CODES THEN TRUE
    ELSE IF Len(error.message) > 0
            /\ \E m \in NetworkMessages : Includes(error.message, m) THEN TRUE
    ELSE IF error.status # 0 /\ error.status \in PROXY_STATUSES THEN TRUE
    ELSE FALSE

MkError(c, m, s) == [isNull |-> FALSE, code |-> c, message |-> m, status |-> s]

\* connection reset by the proxy, as axios reports it
ErrReset ==
    MkError("ECONNRESET",
            <<"r","e","a","d"," ","E","C","O","N","N","R","E","S","E","T">>, 0)
\* HTTP 502 from the proxy or gateway
ErrBadGateway ==
    MkError("ERR_BAD_RESPONSE",
            <<"R","e","q","u","e","s","t"," ","f","a","i","l","e","d"," ","w","i","t","h"," ","s","t","a","t","u","s"," ","c","o","d","e"," ","5","0","2">>, 502)
\* HTTP 404 from the API
ErrNotFound ==
    MkError("ERR_BAD_REQUEST",
            <<"R","e","q","u","e","s","t"," ","f","a","i","l","e","d"," ","w","i","t","h"," ","s","t","a","t","u","s"," ","c","o","d","e"," ","4","0","4">>, 404)

\* the failures an HTTP call of the model can end in
HttpErrors == { ErrReset, ErrBadGateway, ErrNotFound }

ProfileFailedPrefix ==
    <<"P","r","o","f","i","l","e"," ","f","e","t","c","h"," ","f","a","i","l","e","d",":"," ">>

\* ------------------------------------------------------------------------
\* createProxyAgent: the proxy string parser and transport builder
\* ------------------------------------------------------------------------
\* JavaScript null for a transport handle
NullAgent == [kind |-> "null"]

UpperCase ==
    << "A","B","C","D","E","F","G","H","I","J","K","L","M",
       "N","O","P","Q","R","S","T","U","V","W","X","Y","Z" >>
LowerCase ==
    << "a","b","c","d","e","f","g","h","i","j","k","l","m",
       "n","o","p","q","r","s","t","u","v","w","x","y","z" >>
Digits == { "0","1","2","3","4","5","6","7","8","9" }

LowerChar(c) ==
    IF \E k \in 1..26 : UpperCase[k] = c
    THEN LowerCase[CHOOSE k \in 1..26 : UpperCase[k] = c]
    ELSE c

\* s.toLowerCase()
ToLowerCase(s) == [k \in 1..Len(s) |-> LowerChar(s[k])]

IsLetter(c) == \E k \in 1..26 : UpperCase[k] = c \/ LowerCase[k] = c

\* index of the last occurrence of character c in s, 0 when absent
LastIndexOf(s, c) ==
    IF \E k \in 1..Len(s) : s[k] = c
    THEN CHOOSE k \in 1..Len(s) : s[k] = c /\ \A j \in (k + 1)..Len(s) : s[j] # c
    ELSE 0

\* a decimal port without its leading zeros, as the URL parser serialises it
RECURSIVE StripZeros(_)
StripZeros(p) ==
    IF Len(p) > 1 /\ p[1] = "0" THEN StripZeros(Tail(p)) ELSE p

\* the schemes the URL standard calls special, with their default ports
SpecialSchemes ==
    { <<"h","t","t","p">>, <<"h","t","t","p","s">>, <<"w","s">>,
      <<"w","s","s">>, <<"f","t","p">> }

DefaultPort(scheme) ==
    IF scheme \in { <<"h","t","t","p">>, <<"w","s">> } THEN <<"8","0">>
    ELSE IF scheme \in { <<"h","t","t","p","s">>, <<"w","s","s">> } THEN <<"4","4","3">>
    ELSE IF scheme = <<"f","t","p">> THEN <<"2","1">>
    ELSE << >>

\* the TypeError the URL constructor throws
URLThrows == [ok |-> FALSE]

\* the part of s before the first character c, all of s when c is absent
BeforeFirst(s, c) == SubSeq(s, 1, IndexOf(s \o << c >>, c) - 1)

\* the part of s after the first character c, empty when c is absent
AfterFirst(s, c) == SubSeq(s, IndexOf(s \o << c >>, c) + 1, Len(s))

\* the part of s before the last character c, empty when c is absent
BeforeLast(s, c) == SubSeq(s, 1, LastIndexOf(s, c) - 1)

\* the part of s after the last character c, all of s when c is absent
AfterLast(s, c) == SubSeq(s, LastIndexOf(s, c) + 1, Len(s))

\* new URL, last step: the checks on host and port and the URL's fields
URLFields(scheme, user, pass, rawhost, rawport, nport) ==
    IF \/ \E k \in 1..Len(rawport) : rawport[k] \notin Digits
       \/ (scheme \in SpecialSchemes /\ Len(rawhost) = 0)
       \/ Len(nport) > 5
    THEN URLThrows
    ELSE [ok |-> TRUE,
          protocol |-> scheme \o <<":">>,
          hostname |-> IF scheme \in SpecialSchemes THEN ToLowerCase(rawhost)
                       ELSE rawhost,
          port     |-> IF nport = DefaultPort(scheme) THEN << >> ELSE nport,
          username |-> user,
          password |-> pass]

\* new URL: host and port are split at the last colon of the host part
URLHostPort(scheme, userinfo, hostport, rawport) ==
    URLFields(scheme,
              BeforeFirst(userinfo, ":"),
              AfterFirst(userinfo, ":"),
              IF IndexOf(hostport, ":") = 0 THEN hostport ELSE BeforeLast(hostport, ":"),
              rawport,
              IF Len(rawport) = 0 THEN << >> ELSE StripZeros(rawport))

\* new URL: the user info ends at the last "@" of the authority
URLAuthority(scheme, authority) ==
    URLHostPort(scheme,
                BeforeLast(authority, "@"),
                AfterLast(authority, "@"),
                IF IndexOf(AfterLast(authority, "@"), ":") = 0 THEN << >>
                ELSE AfterLast(AfterLast(authority, "@"), ":"))

\* new URL: the authority follows the two slashes and ends at the first "/"
URLAfterScheme(scheme, rest) ==
    IF Len(rest) < 2 \/ SubSeq(rest, 1, 2) # <<"/","/">> THEN URLThrows
    ELSE URLAuthority(scheme, BeforeFirst(SubSeq(rest, 3, Len(rest)), "/"))

\* new URL(s) for a string of the shape scheme://[user[:pass]@]host[:port][/...]
ParseURL(s) ==
    IF IndexOf(s, ":") <= 1 \/ ~ IsLetter(s[1]) THEN URLThrows
    ELSE URLAfterScheme(ToLowerCase(BeforeFirst(s, ":")), AfterFirst(s, ":"))

\* the fields createProxyAgent extracts; an empty string stands for every
\* falsy value (undefined, null, "") of protocol, host, port and auth
Fields(protocol, host, port, auth) ==
    [threw |-> FALSE, protocol |-> protocol, host |-> host, port |-> port,
     auth |-> auth]

HttpProtocol == <<"h","t","t","p">>

\* the branch of a full URL
FieldsOfURL(url) ==
    IF ~ url.ok THEN [threw |-> TRUE]
    ELSE Fields(SelectSeq(url.protocol, LAMBDA c : c # ":"),
                url.hostname,
                url.port,
                IF Len(url.username) > 0 /\ Len(url.password) > 0
                THEN url.username \o <<":">> \o url.password
                ELSE << >>)

\* the branch user:pass@host:port: [credentials, server] = split('@') and
\* [host, port] = server.split(':')
FieldsOfAt(credentials, server) ==
    Fields(HttpProtocol, server[1],
           IF Len(server) >= 2 THEN server[2] ELSE << >>, credentials)

\* the branches of a string without "://", by its colon-separated parts
FieldsOfParts(proxyString, parts) ==
    IF Len(parts) = 2
    THEN Fields(HttpProtocol, parts[1], parts[2], << >>)
    ELSE IF Len(parts) = 4
    THEN Fields(HttpProtocol, parts[1], parts[2], Join(SubSeq(parts, 3, 4), <<":">>))
    ELSE IF Len(parts) >= 2 /\ Includes(proxyString, <<"@">>)
    THEN FieldsOfAt(BeforeFirst(proxyString, "@"),
                    Split(BeforeFirst(AfterFirst(proxyString, "@"), "@"), ":"))
    ELSE Fields(<< >>, << >>, << >>, << >>)

ProxyFields(proxyString) ==
    IF Includes(proxyString, <<":","/","/">>)
    THEN FieldsOfURL(ParseURL(proxyString))
    ELSE FieldsOfParts(proxyString, Split(proxyString, ":"))

StartsWith(s, pre) == Len(s) >= Len(pre) /\ SubSeq(s, 1, Len(pre)) = pre

\* the agent built from valid fields, by proxyType
AgentOfType(f, proxyType) ==
    IF StartsWith(proxyType, <<"s","o","c","k","s">>)
    THEN [kind |-> "socks",
          version |-> IF proxyType[Len(proxyType)] = "5" THEN "5" ELSE "4",
          host |-> f.host, port |-> f.port, auth |-> f.auth]
    ELSE [kind |-> "http", version |-> "",
          host |-> f.host, port |-> f.port, auth |-> f.auth]

\* a builder without the check of host and port
AgentOfFieldsUnchecked(f) ==
    IF f.threw THEN NullAgent
    ELSE AgentOfType(f, IF Len(f.protocol) > 0 THEN ToLowerCase(f.protocol)
                        ELSE HttpProtocol)

\* the validity check and the agent construction; a throw is caught and
\* logged, and null is returned
AgentOfFields(f) ==
    IF f.threw THEN NullAgent
    ELSE IF Len(f.host) = 0 \/ Len(f.port) = 0 THEN NullAgent
    ELSE AgentOfType(f, IF Len(f.protocol) > 0 THEN ToLowerCase(f.protocol)
                        ELSE HttpProtocol)

createProxyAgent(proxyString) == AgentOfFields(ProxyFields(proxyString))

\* ------------------------------------------------------------------------
\* The environment: files and API responses
\* ------------------------------------------------------------------------
DigitChar(k) == << "0","1","2","3","4","5","6","7","8","9" >>[k + 1]

\* tokens.txt with n tokens: a padded line per token after a blank line
TokenFileOf(n) ==
    [exists |-> TRUE,
     lines  |-> << <<" ">> >> \o [k \in 1..n |-> << " ", "t", DigitChar(k) >>]]

MissingFile == [exists |-> FALSE, lines |-> << >>]

TokenFiles == { MissingFile } \cup { TokenFileOf(n) : n \in 0..MaxTokens }

\* proxies.txt with n proxies of the shape host:port
ProxyFileOf(n) ==
    [exists |-> TRUE,
     lines  |-> [k \in 1..n |-> << "h", DigitChar(k), ":", "8", DigitChar(k), " " >>]]

\* proxies.txt whose only line has no port
MalformedProxyFile == [exists |-> TRUE, lines |-> << << "h", "1" >> >>]

ProxyFiles ==
    { MissingFile, MalformedProxyFile } \cup { ProxyFileOf(n) : n \in 0..MaxProxies }

\* data.split('\n').map(trim).filter(nonempty), shared by both loaders
NonEmptyLines(lines) ==
    SelectSeq([k \in 1..Len(lines) |-> Trim(lines[k])], LAMBDA l : Len(l) > 0)

\* a loader that returns the empty list instead of throwing
getAccessTokensAllowEmpty(file) ==
    IF ~ file.exists THEN [threw |-> TRUE, tokens |-> << >>]
    ELSE [threw |-> FALSE, tokens |-> NonEmptyLines(file.lines)]

\* getAccessTokens: threw = TRUE for a missing file and for no token
getAccessTokens(file) ==
    IF ~ file.exists THEN [threw |-> TRUE, tokens |-> << >>]
    ELSE LET toks == NonEmptyLines(file.lines)
         IN  IF Len(toks) = 0 THEN [threw |-> TRUE, tokens |-> << >>]
             ELSE [threw |-> FALSE, tokens |-> toks]

\* getProxies never throws
getProxies(file) ==
    IF ~ file.exists THEN << >> ELSE NonEmptyLines(file.lines)

\* bodies of GET /user/profile; "" is an absent field
ProfileData ==
    { [email |-> "", nickname |-> "nick"],
      [email |-> "a@walme.io", nickname |-> ""] }

DailyTitle == <<"7","-","D","A","Y"," ","C","h","a","l","l","e","n","g","e">>
PlainTitle == <<"Q","u","i","z">>

Task(id, title, status, group, type, iterable, child) ==
    [id |-> id, title |-> title, status |-> status, group |-> group,
     type |-> type, iterable |-> iterable, child |-> child]

Child(id, status) == [id |-> id, status |-> status]

\* an ordinary one-shot task
Plain(id, status, child) == Task(id, PlainTitle, status, "social", "link", FALSE, child)

\* bodies of GET /waitlist/tasks
TaskListA ==
    << Plain(1, "new", << >>),
       Plain(2, "completed", << >>),
       Plain(3, "new", << Child(31, "new"), Child(32, "completed") >>) >>

TaskListB ==
    << Plain(10, "started", << >>),
       Task(11, DailyTitle, "new", "social", "link", FALSE, << >>),
       Plain(12, "failed", << Child(121, "failed"), Child(122, "new") >>) >>

TaskListC ==
    << Task(20, PlainTitle, "started", "daily", "dummy", TRUE, << >>),
       Task(21, DailyTitle, "new", "social", "link", FALSE, << >>),
       Plain(22, "new", << Child(221, "completed") >>) >>

TaskListD ==
    << Task(30, PlainTitle, "failed", "daily", "dummy", TRUE, << Child(301, "new") >>),
       Plain(31, "failed", << >>) >>

TaskPayloads ==
    { [isArray |-> TRUE, items |-> TaskListA],
      [isArray |-> TRUE, items |-> TaskListB],
      [isArray |-> TRUE, items |-> TaskListC],
      [isArray |-> TRUE, items |-> TaskListD],
      [isArray |-> TRUE, items |-> << >>],
      [isArray |-> FALSE, items |-> << >>] }

\* ------------------------------------------------------------------------
\* Pure parts of the request functions and of processAccount
\* ------------------------------------------------------------------------
\* what getUserProfile returns for a response body
getUserProfileResult(data) ==
    LET nickname == IF data.nickname # "" THEN data.nickname ELSE "unknown_user"
    IN  [email |-> data.email, nickname |-> nickname,
         userId |-> IF data.email # "" THEN data.email ELSE nickname]

\* what a request function throws when its HTTP call fails with e:
\* getUserProfile throws a new Error carrying only a message, getTasks
\* rethrows the HTTP error
RequestThrows(f, e) ==
    IF f = "profile" THEN MkError("", ProfileFailedPrefix \o e.message, 0)
    ELSE e

\* what a request function returns for a response body
RequestReturns(f, data) ==
    IF f = "profile" THEN getUserProfileResult(data) ELSE data

\* the backoff before the retry that follows failed attempt number a
RECURSIVE Pow(_, _)
Pow(b, n) == IF n = 0 THEN 1 ELSE b * Pow(b, n - 1)

\* a backoff that doubles instead of growing by half
getBackoffDelayDoubling(a) == RETRY_DELAY * Pow(2, a - 1)

getBackoffDelay(a) == (RETRY_DELAY * Pow(3, a - 1)) \div Pow(2, a - 1)

\* a predicate that looks at the title only
isDailyChallengeTitleOnly(task) ==
    Len(task.title) > 0 /\ Includes(task.title, DailyTitle)

\* the predicate of processDailyChallenge's find and of the pendingTasks filter
isDailyChallenge(task) ==
    \/ (Len(task.title) > 0 /\ Includes(task.title, DailyTitle))
    \/ (task.group = "daily" /\ task.iterable = TRUE /\ task.type = "dummy")

\* a find that keeps the last matching task instead of the first
DailyIndexLast(items) ==
    IF \E k \in 1..Len(items) : isDailyChallenge(items[k])
    THEN CHOOSE k \in 1..Len(items) :
            isDailyChallenge(items[k])
            /\ \A j \in (k + 1)..Len(items) : ~ isDailyChallenge(items[j])
    ELSE 0

\* tasks.find(isDailyChallenge) as an index, 0 when nothing matches
DailyIndex(items) ==
    IF \E k \in 1..Len(items) : isDailyChallenge(items[k])
    THEN CHOOSE k \in 1..Len(items) :
            isDailyChallenge(items[k]) /\ \A j \in 1..(k - 1) : ~ isDailyChallenge(items[j])
    ELSE 0

NeedsProcessing(status) == status = "new" \/ status = "failed"

pendingTasks(items) ==
    SelectSeq(items, LAMBDA t : NeedsProcessing(t.status) /\ ~ isDailyChallenge(t))

\* a loop body that completes every child, whatever its status
TaskCallsEveryChild(task) ==
    IF Len(task.child) > 0
    THEN [k \in 1..Len(task.child) |-> [kind |-> "child", id |-> task.child[k].id]]
    ELSE << [kind |-> "task", id |-> task.id] >>

\* the completion calls the loop body makes for one pending task, in order
TaskCalls(task) ==
    IF Len(task.child) > 0
    THEN LET todo == SelectSeq(task.child, LAMBDA c : NeedsProcessing(c.status))
         IN  [k \in 1..Len(todo) |-> [kind |-> "child", id |-> todo[k].id]]
    ELSE << [kind |-> "task", id |-> task.id] >>

\* the completion calls of the whole for-loop over pendingTasks, in order
RECURSIVE FlattenCalls(_)
FlattenCalls(pending) ==
    IF Len(pending) = 0 THEN << >>
    ELSE TaskCalls(Head(pending)) \o FlattenCalls(Tail(pending))

SweepCalls(items) == FlattenCalls(pendingTasks(items))

\* ------------------------------------------------------------------------
\* Proxy selection of runBot's for-loop
\* ------------------------------------------------------------------------
\* JavaScript falsy proxyString (null)
NoProxy == << >>

Range(f) == { f[x] : x \in DOMAIN f }

healthyProxies(ps, pf) == SelectSeq(ps, LAMBDA p : pf[p] < UNHEALTHY)

\* a selection that forgets the round robin and takes the first healthy proxy
SelectProxyFirst(ps, pf, idx) ==
    IF Len(ps) = 0 THEN NoProxy
    ELSE LET healthy == healthyProxies(ps, pf)
         IN  IF Len(healthy) > 0 THEN healthy[1] ELSE ps[(idx % Len(ps)) + 1]

\* the proxyString chosen for account index idx
SelectProxy(ps, pf, idx) ==
    IF Len(ps) = 0 THEN NoProxy
    ELSE LET healthy == healthyProxies(ps, pf)
         IN  IF Len(healthy) > 0
             THEN healthy[(idx % Len(healthy)) + 1]
             ELSE ps[(idx % Len(ps)) + 1]

\* a selection that never resets the counters
FailuresAfterSelectNoReset(ps, pf) == pf

\* proxyFailures after the selection
FailuresAfterSelect(ps, pf) ==
    IF Len(ps) > 0 /\ Len(healthyProxies(ps, pf)) = 0
    THEN [p \in DOMAIN pf |-> 0]
    ELSE pf

\* proxyFailures after the catch of runBot's try around processAccount
FailuresAfterAccount(pf, ps, err) ==
    IF ~ err.isNull /\ Len(ps) > 0 /\ isProxyError(err)
    THEN [pf EXCEPT ![ps] = @ + 1]
    ELSE pf

NoError == [isNull |-> TRUE]

\* ------------------------------------------------------------------------
\* State
\* ------------------------------------------------------------------------
VARIABLES
    pc,                     \* the await the program is suspended at
    tokens,                 \* runBot: const tokens
    proxies,                \* runBot: const proxies
    proxyFailures,          \* runBot: const proxyFailures
    i,                      \* runBot: the for-loop index
    proxyString,            \* runBot: the proxy selected for tokens[i]
    accAgent,               \* processAccount: let proxyAgent
    profile,                \* processAccount: let profile
    tasks,                  \* processAccount: let tasks
    dailyChallengeSuccess,  \* processAccount: let dailyChallengeSuccess
    sweepIdx,               \* processAccount: position in the sweep's calls
    completedTaskCount,     \* processAccount: let completedTaskCount
    failedTaskCount,        \* processAccount: let failedTaskCount
    fn,                     \* retryApiRequest: requestFn
    retryAgent,             \* retryApiRequest: let proxyAgent
    attempt,                \* retryApiRequest: the for-loop variable
    outs,                   \* history: outcome of each requestFn invocation,
                            \* with the HTTP failure behind a thrown error
    sleeps,                 \* history: the backoff delays slept so far
    ret,                    \* how retryApiRequest settled
    isProxy,                \* retryApiRequest: const isProxy of the last catch
    selectedFrom,           \* history: proxyFailures before the last selection
    calls,                  \* history: the HTTP calls of the current account
    agentBuilds,            \* history: createProxyAgent calls of the account
    runs,                   \* the calls of runBot that have not finished
    timers                  \* the armed 60 s restart timers

schedVars == << tokens, proxies, proxyFailures, i, proxyString, selectedFrom,
               runs, timers >>
acctVars  == << accAgent, profile, tasks, dailyChallengeSuccess, sweepIdx,
                completedTaskCount, failedTaskCount >>
retryVars == << fn, retryAgent, attempt, outs, sleeps, ret, isProxy >>
vars == << pc, tokens, proxies, proxyFailures, i, proxyString, accAgent,
           profile, tasks, dailyChallengeSuccess, sweepIdx, completedTaskCount,
           failedTaskCount, fn, retryAgent, attempt, outs, sleeps, ret, isProxy,
           selectedFrom, calls, agentBuilds, runs, timers >>

NoProfile  == [email |-> "", nickname |-> "", userId |-> ""]
EmptyTasks == [isArray |-> TRUE, items |-> << >>]
NoRet      == [kind |-> "none"]

Init ==
    /\ pc = "readTokens"
    /\ tokens = << >>
    /\ proxies = << >>
    /\ proxyFailures = << >>
    /\ i = 0
    /\ proxyString = NoProxy
    /\ selectedFrom = << >>
    /\ accAgent = NullAgent
    /\ profile = NoProfile
    /\ tasks = EmptyTasks
    /\ dailyChallengeSuccess = FALSE
    /\ sweepIdx = 0
    /\ completedTaskCount = 0
    /\ failedTaskCount = 0
    /\ fn = "none"
    /\ retryAgent = NullAgent
    /\ attempt = 0
    /\ outs = << >>
    /\ sleeps = << >>
    /\ ret = NoRet
    /\ isProxy = FALSE
    /\ calls = << >>
    /\ agentBuilds = 0
    /\ runs = 1
    /\ timers = 0

\* ------------------------------------------------------------------------
\* Pieces of code shared by several continuations
\* ------------------------------------------------------------------------
Pending(kind, id) == [kind |-> kind, id |-> id, st |-> "pending"]

\* the call log with the outcome of the call in flight filled in
Settle(log, st) == [log EXCEPT ![Len(log)].st = st]

\* retryApiRequest from its entry to the first await of requestFn;
\* log and built are the history before the call
EnterRetry(f, ps, log, built) ==
    /\ fn' = f
    /\ retryAgent' = IF Len(ps) > 0 THEN createProxyAgent(ps) ELSE NullAgent
    /\ agentBuilds' = built + (IF Len(ps) > 0 THEN 1 ELSE 0)
    /\ attempt' = 1
    /\ outs' = << >>
    /\ sleeps' = << >>
    /\ ret' = NoRet
    /\ isProxy' = FALSE
    /\ calls' = Append(log, Pending(f, 0))
    /\ pc' = "request"

\* the for-loop body of runBot for index idx, up to the first await inside
\* processAccount: proxy selection, then processAccount's entry
BeginAccount(idx, ps, pf) ==
    LET sel == SelectProxy(ps, pf, idx)
    IN  /\ i' = idx
        /\ proxyString' = sel
        /\ proxyFailures' = FailuresAfterSelect(ps, pf)
        /\ selectedFrom' = pf
        /\ accAgent' = IF Len(sel) > 0 THEN createProxyAgent(sel) ELSE NullAgent
        /\ profile' = NoProfile
        /\ tasks' = EmptyTasks
        /\ dailyChallengeSuccess' = FALSE
        /\ sweepIdx' = 0
        /\ completedTaskCount' = 0
        /\ failedTaskCount' = 0
        /\ EnterRetry("profile", sel, << >>, IF Len(sel) > 0 THEN 1 ELSE 0)

\* an exit of processAccount that rejects, with no try around the call in
\* runBot: the error reaches runBot's outer catch and the restart timer
ReturnFromAccountCrash(log) ==
    /\ calls' = log
    /\ pc' = "restartWait"

\* processAccount returns: every exit of processAccount resolves its promise
ReturnFromAccount(log) ==
    /\ calls' = log
    /\ pc' = "accountSettled"

\* the sweep from call number k on: the next completion call, or the end of
\* the for-loop over pendingTasks and of processAccount
SweepFrom(k, items, log) ==
    LET plan == SweepCalls(items)
    IN  /\ sweepIdx' = k
        /\ IF k <= Len(plan)
           THEN /\ calls' = Append(log, Pending(plan[k].kind, plan[k].id))
                /\ pc' = "sweepCall"
           ELSE ReturnFromAccount(log)

\* ------------------------------------------------------------------------
\* runBot: startup and restart
\* ------------------------------------------------------------------------
\* fs.readFile of tokens.txt settles: getAccessTokens returns or throws, and
\* a throw is caught by runBot's outer catch, which arms the 60 s timer and
\* ends this call of runBot
\* a catch block that arms the restart timer twice
TokensReadArmsTwice ==
    /\ pc = "readTokens"
    /\ \E file \in TokenFiles :
          LET r == getAccessTokens(file)
          IN  IF r.threw
              THEN /\ pc' = "restartWait"
                   /\ timers' = timers + 2
                   /\ runs' = runs - 1
                   /\ UNCHANGED tokens
              ELSE /\ tokens' = r.tokens
                   /\ pc' = "readProxies"
                   /\ UNCHANGED << runs, timers >>
    /\ UNCHANGED << proxies, proxyFailures, i, proxyString, selectedFrom,
                    acctVars, retryVars, calls, agentBuilds >>

\* runBot from its call to the settling of getAccessTokens; a rejection is
\* caught by the catch of runBot, which arms the 60-second restart timer
TokensRead ==
    /\ pc = "readTokens"
    /\ \E file \in TokenFiles :
          LET r == getAccessTokens(file)
          IN  IF r.threw
              THEN /\ pc' = "restartWait"
                   /\ timers' = timers + 1
                   /\ runs' = runs - 1
                   /\ UNCHANGED tokens
              ELSE /\ tokens' = r.tokens
                   /\ pc' = "readProxies"
                   /\ UNCHANGED << runs, timers >>
    /\ UNCHANGED << proxies, proxyFailures, i, proxyString, selectedFrom,
                    acctVars, retryVars, calls, agentBuilds >>

\* runBot from the return of getProxies to the first await of the first
\* account: counters are initialised and the while-loop starts with index 0
LoadProxies(file) ==
    LET ps == getProxies(file)
    IN  /\ proxies' = ps
        /\ BeginAccount(0, ps, [p \in Range(ps) |-> 0])
        /\ UNCHANGED << tokens, runs, timers >>

\* fs.readFile of proxies.txt settles
ProxiesRead ==
    /\ pc = "readProxies"
    /\ \E file \in ProxyFiles : LoadProxies(file)

\* a restart armed with setInterval: the timer stays armed when it fires
RestartTimerFiresInterval ==
    /\ pc = "restartWait"
    /\ runs' = runs + 1
    /\ pc' = "readTokens"
    /\ UNCHANGED << tokens, proxies, proxyFailures, i, proxyString, selectedFrom,
                    timers, acctVars, retryVars, calls, agentBuilds >>

\* setTimeout(() => runBot(), 60000) fires: a new runBot starts
RestartTimerFires ==
    /\ pc = "restartWait"
    /\ timers' = timers - 1
    /\ runs' = runs + 1
    /\ pc' = "readTokens"
    /\ UNCHANGED << tokens, proxies, proxyFailures, i, proxyString, selectedFrom,
                    acctVars, retryVars, calls, agentBuilds >>

\* ------------------------------------------------------------------------
\* retryApiRequest
\* ------------------------------------------------------------------------
ResponseBodies(f) == IF f = "profile" THEN ProfileData ELSE TaskPayloads

\* a retry loop that gives up one attempt early
RetryAgainOffByOne(a) == a < MAX_RETRIES - 1

\* the condition of the catch block's if: another attempt follows
RetryAgain(a) == a < MAX_RETRIES

\* a rebuild after every failure, whatever its classification
RebuildsAgentAlways(verdict, ps) == Len(ps) > 0

\* the condition of the rebuild: if (isProxy && proxyString)
RebuildsAgent(verdict, ps) == verdict /\ Len(ps) > 0

\* the handle the next attempt uses, after a failure classified as verdict
AgentForRetry(verdict, ps, agent) ==
    IF RebuildsAgent(verdict, ps) THEN createProxyAgent(ps) ELSE agent

\* a retry loop whose try block lost its return: the value is dropped and
\* the for-loop goes on to the next attempt
RequestSucceedsNoReturn ==
    /\ pc = "request"
    /\ \E data \in ResponseBodies(fn) :
          outs' = Append(outs, [ok |-> TRUE, val |-> RequestReturns(fn, data)])
    /\ IF attempt < MAX_RETRIES
       THEN /\ attempt' = attempt + 1
            /\ calls' = Append(Settle(calls, "ok"), Pending(fn, 0))
            /\ pc' = "request"
            /\ UNCHANGED ret
       ELSE /\ attempt' = attempt
            /\ calls' = Settle(calls, "ok")
            /\ ret' = [kind |-> "returned", val |-> outs'[Len(outs')].val]
            /\ pc' = "retrySettled"
    /\ UNCHANGED << schedVars, acctVars, fn, retryAgent, sleeps, isProxy,
                    agentBuilds >>

\* requestFn resolves: retryApiRequest returns its value
RequestSucceeds ==
    /\ pc = "request"
    /\ \E data \in ResponseBodies(fn) :
          LET v == RequestReturns(fn, data)
          IN  /\ outs' = Append(outs, [ok |-> TRUE, val |-> v])
              /\ ret' = [kind |-> "returned", val |-> v]
    /\ calls' = Settle(calls, "ok")
    /\ pc' = "retrySettled"
    /\ UNCHANGED << schedVars, acctVars, fn, retryAgent, attempt, sleeps,
                    isProxy, agentBuilds >>

\* the catch block of retryApiRequest when the HTTP call of requestFn failed
\* with e: the error is classified, then either the backoff sleep starts or
\* the error of the last attempt is rethrown
Catch(e) ==
    LET err == RequestThrows(fn, e)
    IN  /\ outs' = Append(outs, [ok |-> FALSE, err |-> err, http |-> e])
        /\ isProxy' = isProxyError(err)
        /\ IF RetryAgain(attempt)
           THEN /\ sleeps' = Append(sleeps, getBackoffDelay(attempt))
                /\ pc' = "backoff"
                /\ UNCHANGED ret
           ELSE /\ ret' = [kind |-> "thrown", err |-> err]
                /\ pc' = "retrySettled"
                /\ UNCHANGED sleeps
        /\ calls' = Settle(calls, "failed")
        /\ UNCHANGED << schedVars, acctVars, fn, retryAgent, attempt, agentBuilds >>

\* requestFn rejects
RequestFails ==
    /\ pc = "request"
    /\ \E e \in HttpErrors : Catch(e)

\* the backoff timer fires: the handle is rebuilt after a proxy error, and
\* the next iteration of the for-loop calls requestFn again
BackoffElapses ==
    /\ pc = "backoff"
    /\ retryAgent' = AgentForRetry(isProxy, proxyString, retryAgent)
    /\ agentBuilds' = agentBuilds
            + (IF RebuildsAgent(isProxy, proxyString) THEN 1 ELSE 0)
    /\ attempt' = attempt + 1
    /\ calls' = Append(calls, Pending(fn, 0))
    /\ pc' = "request"
    /\ UNCHANGED << schedVars, acctVars, fn, outs, sleeps, ret, isProxy >>

\* ------------------------------------------------------------------------
\* processAccount
\* ------------------------------------------------------------------------
\* a profile catch block without its return: the task list is fetched anyway
AfterProfileNoReturn ==
    /\ pc = "retrySettled"
    /\ fn = "profile"
    /\ profile' = IF ret.kind = "thrown" THEN NoProfile ELSE ret.val
    /\ EnterRetry("tasks", proxyString, calls, agentBuilds)
    /\ UNCHANGED << schedVars, accAgent, tasks, dailyChallengeSuccess, sweepIdx,
                    completedTaskCount, failedTaskCount >>

\* processAccount resumes after the profile fetch settled
AfterProfile ==
    /\ pc = "retrySettled"
    /\ fn = "profile"
    /\ IF ret.kind = "thrown"
       THEN /\ ReturnFromAccount(calls)
            /\ UNCHANGED << profile, retryVars, agentBuilds >>
       ELSE /\ profile' = ret.val
            /\ EnterRetry("tasks", proxyString, calls, agentBuilds)
    /\ UNCHANGED << schedVars, accAgent, tasks, dailyChallengeSuccess, sweepIdx,
                    completedTaskCount, failedTaskCount >>

\* processAccount resumes after the task-list fetch settled and calls
\* processDailyChallenge, which runs up to its PATCH or to its return
AfterTasks ==
    /\ pc = "retrySettled"
    /\ fn = "tasks"
    /\ IF ret.kind = "thrown"
       THEN /\ ReturnFromAccount(calls)
            /\ UNCHANGED << tasks, dailyChallengeSuccess >>
       ELSE LET list == ret.val
                d == IF list.isArray THEN DailyIndex(list.items) ELSE 0
            IN  /\ tasks' = list
                /\ IF ~ list.isArray \/ d = 0
                   THEN \* tasks.find threw inside the try, or found nothing
                        /\ dailyChallengeSuccess' = FALSE
                        /\ pc' = "dailySettled"
                        /\ UNCHANGED calls
                   ELSE IF list.items[d].status \in { "completed", "started" }
                   THEN /\ dailyChallengeSuccess' = TRUE
                        /\ pc' = "dailySettled"
                        /\ UNCHANGED calls
                   ELSE /\ calls' = Append(calls, Pending("daily", list.items[d].id))
                        /\ pc' = "dailyCall"
                        /\ UNCHANGED dailyChallengeSuccess
    /\ UNCHANGED << schedVars, accAgent, profile, sweepIdx, completedTaskCount,
                    failedTaskCount, retryVars, agentBuilds >>

\* the PATCH of processDailyChallenge settles; a failure is caught inside
DailyResponds ==
    /\ pc = "dailyCall"
    /\ \E ok \in BOOLEAN :
          /\ dailyChallengeSuccess' = ok
          /\ calls' = Settle(calls, IF ok THEN "ok" ELSE "failed")
    /\ pc' = "dailySettled"
    /\ UNCHANGED << schedVars, accAgent, profile, tasks, sweepIdx,
                    completedTaskCount, failedTaskCount, retryVars, agentBuilds >>

\* a processAccount that gives up when the daily-challenge call has failed
AfterDailyStopsOnFailure ==
    /\ pc = "dailySettled"
    /\ IF tasks.isArray /\ calls[Len(calls)].st # "failed"
       THEN SweepFrom(1, tasks.items, calls)
       ELSE /\ ReturnFromAccount(calls)
            /\ UNCHANGED sweepIdx
    /\ completedTaskCount' = 0
    /\ failedTaskCount' = 0
    /\ UNCHANGED << schedVars, accAgent, profile, tasks, dailyChallengeSuccess,
                    retryVars, agentBuilds >>

\* processAccount resumes after processDailyChallenge: the pendingTasks
\* filter, then the sweep up to its first PATCH; tasks.filter on a body that
\* is not an array throws into processAccount's outer catch
AfterDaily ==
    /\ pc = "dailySettled"
    /\ IF tasks.isArray
       THEN SweepFrom(1, tasks.items, calls)
       ELSE /\ ReturnFromAccount(calls)
            /\ UNCHANGED sweepIdx
    /\ completedTaskCount' = 0
    /\ failedTaskCount' = 0
    /\ UNCHANGED << schedVars, accAgent, profile, tasks, dailyChallengeSuccess,
                    retryVars, agentBuilds >>

\* a PATCH of the sweep resolves: it is counted and the pacing sleep starts
SweepCallSucceeds ==
    /\ pc = "sweepCall"
    /\ completedTaskCount' = completedTaskCount + 1
    /\ calls' = Settle(calls, "ok")
    /\ pc' = "pacing"
    /\ UNCHANGED << schedVars, accAgent, profile, tasks, dailyChallengeSuccess,
                    sweepIdx, failedTaskCount, retryVars, agentBuilds >>

\* a catch that logs the failure without counting it
SweepCallFailsUncounted ==
    /\ pc = "sweepCall"
    /\ SweepFrom(sweepIdx + 1, tasks.items, Settle(calls, "failed"))
    /\ UNCHANGED << schedVars, accAgent, profile, tasks, dailyChallengeSuccess,
                    completedTaskCount, failedTaskCount, retryVars, agentBuilds >>

\* a PATCH of the sweep rejects: the catch counts it and the loops go on
SweepCallFails ==
    /\ pc = "sweepCall"
    /\ failedTaskCount' = failedTaskCount + 1
    /\ SweepFrom(sweepIdx + 1, tasks.items, Settle(calls, "failed"))
    /\ UNCHANGED << schedVars, accAgent, profile, tasks, dailyChallengeSuccess,
                    completedTaskCount, retryVars, agentBuilds >>

\* the 1000..3000 ms pacing timer fires: the loops go on
PacingElapses ==
    /\ pc = "pacing"
    /\ SweepFrom(sweepIdx + 1, tasks.items, calls)
    /\ UNCHANGED << schedVars, accAgent, profile, tasks, dailyChallengeSuccess,
                    completedTaskCount, failedTaskCount, retryVars, agentBuilds >>

\* ------------------------------------------------------------------------
\* runBot: the rest of the for-loop and the while-loop
\* ------------------------------------------------------------------------
\* the rejection reason of processAccount's promise: none, because every
\* path of processAccount ends in a return or in its own catch
processAccountError == NoError

\* runBot resumes after processAccount: the catch of its try, then the
\* inter-account delay starts; processAccount's locals are gone
AfterAccount ==
    /\ pc = "accountSettled"
    /\ proxyFailures' = FailuresAfterAccount(proxyFailures, proxyString,
                                             processAccountError)
    /\ pc' = "acctDelay"
    /\ accAgent' = NullAgent
    /\ profile' = NoProfile
    /\ tasks' = EmptyTasks
    /\ dailyChallengeSuccess' = FALSE
    /\ sweepIdx' = 0
    /\ completedTaskCount' = 0
    /\ failedTaskCount' = 0
    /\ fn' = "none"
    /\ retryAgent' = NullAgent
    /\ attempt' = 0
    /\ outs' = << >>
    /\ sleeps' = << >>
    /\ ret' = NoRet
    /\ isProxy' = FALSE
    /\ calls' = << >>
    /\ agentBuilds' = 0
    /\ UNCHANGED << tokens, proxies, i, proxyString, selectedFrom, runs, timers >>

\* a scheduler that forgives one failure of every proxy between accounts
AcctDelayElapsesForgiving ==
    /\ pc = "acctDelay"
    /\ IF i + 1 < Len(tokens)
       THEN BeginAccount(i + 1, proxies,
                         [p \in DOMAIN proxyFailures |->
                             IF proxyFailures[p] > 0 THEN proxyFailures[p] - 1 ELSE 0])
       ELSE /\ pc' = "cycleWait"
            /\ UNCHANGED << proxyFailures, i, proxyString, selectedFrom,
                            acctVars, retryVars, calls, agentBuilds >>
    /\ UNCHANGED << tokens, proxies, runs, timers >>

\* the 2000..5000 ms inter-account timer fires: i++ and either the next
\* account or the end of the pass and the 3-hour wait
AcctDelayElapses ==
    /\ pc = "acctDelay"
    /\ IF i + 1 < Len(tokens)
       THEN BeginAccount(i + 1, proxies, proxyFailures)
       ELSE /\ pc' = "cycleWait"
            /\ UNCHANGED << proxyFailures, i, proxyString, selectedFrom,
                            acctVars, retryVars, calls, agentBuilds >>
    /\ UNCHANGED << tokens, proxies, runs, timers >>

\* a scheduler that starts a pass only when some proxy is healthy
CycleWaitElapsesIfHealthy ==
    /\ pc = "cycleWait"
    /\ Len(healthyProxies(proxies, proxyFailures)) > 0
    /\ BeginAccount(0, proxies, proxyFailures)
    /\ UNCHANGED << tokens, proxies, runs, timers >>

\* the 3-hour timer fires: the next pass of the while-loop starts
CycleWaitElapses ==
    /\ pc = "cycleWait"
    /\ BeginAccount(0, proxies, proxyFailures)
    /\ UNCHANGED << tokens, proxies, runs, timers >>

Next ==
    \/ TokensRead
    \/ ProxiesRead
    \/ RestartTimerFires
    \/ RequestSucceeds
    \/ RequestFails
    \/ BackoffElapses
    \/ AfterProfile
    \/ AfterTasks
    \/ DailyResponds
    \/ AfterDaily
    \/ SweepCallSucceeds
    \/ SweepCallFails
    \/ PacingElapses
    \/ AfterAccount
    \/ AcctDelayElapses
    \/ CycleWaitElapses

Spec == Init /\ [][Next]_vars

TypeOK ==
    /\ pc \in { "readTokens", "readProxies", "restartWait", "request", "backoff",
                "retrySettled", "dailyCall", "dailySettled", "sweepCall",
                "pacing", "accountSettled", "acctDelay", "cycleWait" }
    /\ attempt \in 0..MAX_RETRIES
    /\ i \in 0..MaxTokens

\* ------------------------------------------------------------------------
\* The proxy selection on every counter map
\* ------------------------------------------------------------------------
\* largest failure count of a counter map the selection is applied to
MaxFailures == 3

\* runBot suspended at the inter-account delay or at the 3-hour wait, with
\* tokens and proxies loaded and a counter map drawn from 0..MaxFailures
SelectInit ==
    /\ pc \in { "acctDelay", "cycleWait" }
    /\ tokens = getAccessTokens(TokenFileOf(MaxTokens)).tokens
    /\ \E n \in 1..MaxProxies : proxies = getProxies(ProxyFileOf(n))
    /\ proxyFailures \in [Range(proxies) -> 0..MaxFailures]
    /\ i \in 0..(Len(tokens) - 1)
    /\ pc = "cycleWait" => i = Len(tokens) - 1
    /\ proxyString \in Range(proxies)
    /\ selectedFrom = proxyFailures
    /\ accAgent = NullAgent
    /\ profile = NoProfile
    /\ tasks = EmptyTasks
    /\ dailyChallengeSuccess = FALSE
    /\ sweepIdx = 0
    /\ completedTaskCount = 0
    /\ failedTaskCount = 0
    /\ fn = "none"
    /\ retryAgent = NullAgent
    /\ attempt = 0
    /\ outs = << >>
    /\ sleeps = << >>
    /\ ret = NoRet
    /\ isProxy = FALSE
    /\ calls = << >>
    /\ agentBuilds = 0
    /\ runs = 1
    /\ timers = 0

SelectNext ==
    \/ RequestSucceeds
    \/ RequestFails
    \/ BackoffElapses
    \/ AfterProfile
    \/ AfterTasks
    \/ DailyResponds
    \/ AfterDaily
    \/ SweepCallSucceeds
    \/ SweepCallFails
    \/ PacingElapses
    \/ AfterAccount
    \/ AcctDelayElapses
    \/ CycleWaitElapses

\* SelectInit draws counter maps that Spec never reaches, where no counter
\* leaves 0 (see C6): SelectSpec is the scheduler loop run on every counter
\* map the selection code can be handed.
SelectSpec == SelectInit /\ [][SelectNext]_vars

\* ------------------------------------------------------------------------
\* runBot from its start, or suspended in the loop with any counter map
\* ------------------------------------------------------------------------
CounterInit == Init \/ SelectInit

CounterSpec == CounterInit /\ [][Next]_vars

\* ------------------------------------------------------------------------
\* Properties
\* ------------------------------------------------------------------------
\* positions of the program inside processAccount
AccountPcs ==
    { "request", "backoff", "retrySettled", "dailyCall", "dailySettled",
      "sweepCall", "pacing", "accountSettled" }

\* the requestFn invocations of the current retryApiRequest call that failed
FailedAttempts == { k \in 1..Len(outs) : ~ outs[k].ok }

\* the HTTP calls the current retryApiRequest call has issued
IssuedByRetry == { k \in 1..Len(calls) : calls[k].kind = fn }

\* C1: when requestFn fails on every attempt, exactly 3 attempts are made and
\* retryApiRequest throws the error of the 3rd attempt: it throws only after
\* 3 failed attempts, three failures always end in that throw, no 4th
\* attempt is issued and nothing is returned.
C1_AllFailThrowsLast ==
    /\ Len(outs) <= 3
    /\ ret.kind = "thrown" =>
          /\ Len(outs) = 3
          /\ FailedAttempts = 1..3
          /\ ret.err = outs[3].err
          /\ Cardinality(IssuedByRetry) = 3
          /\ pc \in { "retrySettled", "accountSettled" }
    /\ (Cardinality(FailedAttempts) = 3 /\ fn # "none") =>
          ret = [kind |-> "thrown", err |-> outs[3].err]

\* a retry that threw after three attempts whose errors differ
C1_Witness ==
    /\ pc = "retrySettled"
    /\ ret.kind = "thrown"
    /\ Len(outs) = 3
    /\ outs[1].err # outs[3].err
    /\ outs[2].err # outs[3].err

\* C2: when requestFn first succeeds on attempt k (1 <= k <= 3),
\* retryApiRequest returns that attempt's result, requestFn has been invoked
\* exactly k times, and no attempt follows the success.
C2_FirstSuccessReturns ==
    /\ ret.kind = "returned" =>
          /\ Len(outs) \in 1..3
          /\ outs[Len(outs)].ok
          /\ ret.val = outs[Len(outs)].val
          /\ FailedAttempts = 1..(Len(outs) - 1)
          /\ Cardinality(IssuedByRetry) = Len(outs)
    /\ \A k \in 1..Len(outs) :
          outs[k].ok =>
             /\ k = Len(outs)
             /\ ret = [kind |-> "returned", val |-> outs[k].val]
             /\ pc \notin { "request", "backoff" }

\* a task-list fetch that returned on its second attempt
C2_Witness ==
    /\ pc = "retrySettled"
    /\ fn = "tasks"
    /\ ret.kind = "returned"
    /\ Len(outs) = 2
    /\ Len(ret.val.items) > 0

\* the backoff delays the spec lists, by failed attempt
C3_Delays == << 3000, 4500 >>

\* C3: a backoff sleep follows failed attempt k exactly when k < 3, and it
\* lasts 3000 ms after attempt 1 and 4500 ms after attempt 2; no sleep
\* follows the third failure.
C3_BackoffSchedule ==
    LET nf == Cardinality(FailedAttempts)
    IN  /\ Len(sleeps) = (IF nf >= 3 THEN 2 ELSE nf)
        /\ \A k \in 1..Len(sleeps) : sleeps[k] = C3_Delays[k]
        /\ pc = "backoff" <=> (nf \in 1..2 /\ Len(outs) = nf /\ attempt = nf)

\* a call that failed exactly twice and then succeeded
C3_Witness ==
    /\ ret.kind = "returned"
    /\ Len(outs) = 3
    /\ sleeps = << 3000, 4500 >>

\* the loaded proxies whose count before the selection was below 3
C4_HealthySubset == SelectSeq(proxies, LAMBDA p : selectedFrom[p] < 3)

C5_AllDegraded ==
    /\ Len(proxies) > 0
    /\ \A k \in 1..Len(proxies) : selectedFrom[proxies[k]] >= 3

\* C5: when the proxy list is not empty and every proxy had a failure count
\* of 3 or more at the selection, the selection set every count to 0 and chose
\* allProxies[i mod |allProxies|]; the selection changed the counters in no
\* other situation.
C5_DegradedSelectionResets ==
    pc \in AccountPcs =>
        /\ C5_AllDegraded =>
              /\ \A k \in 1..Len(proxies) : proxyFailures[proxies[k]] = 0
              /\ proxyString = proxies[(i % Len(proxies)) + 1]
        /\ proxyFailures # selectedFrom => C5_AllDegraded

\* the second account runs right after a selection that found both proxies
\* at 3 failures or more, reset them and took the second one
C5_Witness ==
    /\ pc = "request"
    /\ i = 1
    /\ Len(proxies) = 2
    /\ C5_AllDegraded
    /\ proxyString = proxies[2]
    /\ proxyFailures[proxies[1]] = 0
    /\ proxyFailures[proxies[2]] = 0

\* C6: when an account run with a selected proxy ends in a proxy-classified
\* error (its profile or task-list fetch threw one after all retries), the
\* step of runBot that follows processAccount adds exactly 1 to that proxy's
\* failure count and changes no other count.
C6_FailureRecorded ==
    [][ ( /\ pc = "accountSettled"
          /\ Len(proxyString) > 0
          /\ ret.kind = "thrown"
          /\ isProxyError(ret.err) )
        => proxyFailures' = [proxyFailures EXCEPT ![proxyString] = @ + 1] ]_vars

\* C7: no step made while an account is processed, failed calls included,
\* leaves the scheduler loop or arms the restart timer: the account ends in
\* the inter-account delay with the index unchanged, and after the delay the
\* loop goes on with the next index of the pass, or ends the pass after the
\* last one.
C7_FailuresContained ==
    [][ /\ pc \in AccountPcs =>
              /\ pc' \in AccountPcs \cup { "acctDelay" }
              /\ i' = i
              /\ tokens' = tokens
        /\ pc = "acctDelay" =>
              IF i + 1 < Len(tokens)
              THEN pc' = "request" /\ i' = i + 1 /\ fn' = "profile"
              ELSE pc' = "cycleWait" ]_vars

C7_Failed(kinds) ==
    \E k \in 1..Len(calls) : calls[k].kind \in kinds /\ calls[k].st = "failed"

\* the first of two accounts has ended after a failed attempt of each fetch,
\* a failed daily-challenge call and a failed completion call
C7_Witness ==
    /\ pc = "accountSettled"
    /\ i = 0
    /\ Len(tokens) = 2
    /\ C7_Failed({ "profile" })
    /\ C7_Failed({ "tasks" })
    /\ C7_Failed({ "daily" })
    /\ C7_Failed({ "task", "child" })

C8_Ok(kind, before) ==
    \E j \in 1..(before - 1) : calls[j].kind = kind /\ calls[j].st = "ok"

\* C8: an account whose profile fetch failed after all retries ends with no
\* call but profile calls, and one whose task-list fetch failed after all
\* retries ends with no daily-challenge and no completion call: a task-list
\* call is only made after a successful profile call, and a daily-challenge
\* or completion call only after a successful task-list call.
C8_AbortOnFetchFailure ==
    /\ \A k \in 1..Len(calls) :
          /\ calls[k].kind # "profile" => C8_Ok("profile", k)
          /\ calls[k].kind \in { "daily", "task", "child" } => C8_Ok("tasks", k)
    /\ (pc = "accountSettled" /\ fn = "profile") =>
          /\ ret.kind = "thrown"
          /\ \A k \in 1..Len(calls) : calls[k].kind = "profile" /\ calls[k].st = "failed"
    /\ (pc = "accountSettled" /\ fn = "tasks" /\ ret.kind = "thrown") =>
          \A k \in 1..Len(calls) : calls[k].kind \in { "profile", "tasks" }

\* an account that ended because its task-list fetch failed three times
C8_Witness ==
    /\ pc = "accountSettled"
    /\ fn = "tasks"
    /\ ret.kind = "thrown"
    /\ Len(calls) >= 4

\* the daily-challenge predicate as the spec words it
C9_MatchesDaily(t) ==
    \/ Includes(t.title, <<"7","-","D","A","Y"," ","C","h","a","l","l","e","n","g","e">>)
    \/ (t.group = "daily" /\ t.iterable /\ t.type = "dummy")

\* the task handled as the daily challenge: the first one matching, 0 if none
C9_IdentifiedDaily(items) ==
    IF \E k \in 1..Len(items) : C9_MatchesDaily(items[k])
    THEN CHOOSE k \in 1..Len(items) :
            C9_MatchesDaily(items[k]) /\ \A j \in 1..(k - 1) : ~ C9_MatchesDaily(items[j])
    ELSE 0

C9_Eligible(status) == status \in { "new", "failed" }

\* the tasks the sweep works on, given the indices it leaves out
C9_Swept(items, excluded) ==
    { k \in 1..Len(items) : k \notin excluded /\ C9_Eligible(items[k].status) }

\* the completion calls expected of the sweep, as a set of (kind, id)
C9_Expected(items, excluded) ==
    { [kind |-> "task", id |-> items[k].id] :
         k \in { n \in C9_Swept(items, excluded) : Len(items[n].child) = 0 } }
    \cup
    UNION { { [kind |-> "child", id |-> items[k].child[j].id] :
                 j \in { m \in 1..Len(items[k].child) :
                            C9_Eligible(items[k].child[m].status) } } :
            k \in C9_Swept(items, excluded) }

\* the completion calls the sweep has issued, in order
C9_SweepLog ==
    LET log == SelectSeq(calls, LAMBDA c : c.kind \in { "task", "child" })
    IN  [n \in 1..Len(log) |-> [kind |-> log[n].kind, id |-> log[n].id]]

\* the place of a completion call in the task list: 100 * the index of the
\* task (or parent) plus the index of the child
C9_Place(items, call) ==
    IF call.kind = "task"
    THEN 100 * (CHOOSE k \in 1..Len(items) : items[k].id = call.id)
    ELSE LET k == CHOOSE n \in 1..Len(items) :
                     \E j \in 1..Len(items[n].child) : items[n].child[j].id = call.id
         IN  100 * k + (CHOOSE j \in 1..Len(items[k].child) :
                           items[k].child[j].id = call.id)

\* the sweep of the current account has run to its end
C9_SweepDone ==
    /\ pc = "accountSettled"
    /\ fn = "tasks"
    /\ ret.kind = "returned"
    /\ tasks.isArray

\* the sweep issued exactly the expected calls, once each, in list order
C9_CallsAre(excluded) ==
    LET log == C9_SweepLog
        expected == C9_Expected(tasks.items, excluded)
    IN  /\ { log[n] : n \in 1..Len(log) } = expected
        /\ Len(log) = Cardinality(expected)
        /\ \A a, b \in 1..Len(log) :
              a < b => C9_Place(tasks.items, log[a]) < C9_Place(tasks.items, log[b])

\* C9 as claimed: the sweep leaves out only the daily-challenge task
\* identified in step 3 (the first task matching the predicate).
C9_SweepCallSetAsClaimed ==
    C9_SweepDone => C9_CallsAre({ C9_IdentifiedDaily(tasks.items) })

\* C9 as amended: for every fetched task list the sweep issues exactly one
\* completion call for each task with status new or failed that does not
\* match the daily-challenge predicate and has no children, exactly one for
\* each child with status new or failed of such a task that has children, and
\* no other call; the calls follow list order, children in order within
\* their parent.  The list of the spec's scenario gives ids 1 then 31.
C9_SweepCallSet ==
    C9_SweepDone =>
        /\ C9_CallsAre({ k \in 1..Len(tasks.items) : C9_MatchesDaily(tasks.items[k]) })
        /\ tasks.items = TaskListA =>
              C9_SweepLog = << [kind |-> "task", id |-> 1], [kind |-> "child", id |-> 31] >>

\* a finished sweep of the list of the spec's scenario, with its two calls
C9_Witness ==
    /\ C9_SweepDone
    /\ tasks.items = TaskListA
    /\ Len(C9_SweepLog) = 2

\* the daily-challenge calls of the current account
C10_DailyCalls == { k \in 1..Len(calls) : calls[k].kind = "daily" }

\* the task list has been fetched and processDailyChallenge has started
C10_AfterFetch ==
    /\ pc \in { "dailyCall", "dailySettled", "sweepCall", "pacing", "accountSettled" }
    /\ fn = "tasks"
    /\ ret.kind = "returned"

\* C10: once the task list is fetched, no daily call is made when no task
\* matches the predicate or when the first matching task has status completed
\* or started; otherwise exactly one completion call is made for its id, and
\* it comes after the task-list fetch and before every call of the sweep.
\* No daily call is made at any other time.
C10_DailyChallengeCall ==
    /\ C10_DailyCalls # {} => C10_AfterFetch
    /\ C10_AfterFetch =>
          LET d == IF tasks.isArray THEN C9_IdentifiedDaily(tasks.items) ELSE 0
          IN  IF d = 0 THEN C10_DailyCalls = {}
              ELSE IF tasks.items[d].status \in { "completed", "started" }
              THEN C10_DailyCalls = {}
              ELSE /\ Cardinality(C10_DailyCalls) = 1
                   /\ \A k \in C10_DailyCalls :
                         /\ calls[k].id = tasks.items[d].id
                         /\ calls[k - 1].kind = "tasks" /\ calls[k - 1].st = "ok"
                         /\ \A j \in 1..(k - 1) : calls[j].kind \in { "profile", "tasks" }
                         /\ \A j \in (k + 1)..Len(calls) : calls[j].kind \in { "task", "child" }

\* a daily-challenge call that failed and was followed by a call of the sweep
C10_Witness ==
    \E k \in 1..Len(calls) :
        /\ calls[k].kind = "daily"
        /\ calls[k].st = "failed"
        /\ k < Len(calls)
        /\ calls[k + 1].kind \in { "task", "child" }

\* ------------------------------------------------------------------------
\* processAccount on every task list of a bounded shape
\* ------------------------------------------------------------------------
\* largest number of tasks in a task list drawn by DailyInit
MaxTasks == 2

\* titles: absent, a title with the marker in lower case, and a title
\* containing the marker
TaskTitles ==
    { << >>,
      <<"7","-","d","a","y"," ","c","h","a","l","l","e","n","g","e">>,
      <<"D","o"," ">> \o DailyTitle \o <<" ","3">> }

\* a task of the task list without its id; no task has children
TaskShapes ==
    [title : TaskTitles, group : { "daily", "social" },
     type : { "dummy", "link" }, iterable : BOOLEAN,
     status : { "new", "completed" }]

\* the task list of a sequence of shapes; the id of a task is its position
TaskListOf(shapes) ==
    [k \in 1..Len(shapes) |-> Task(k, shapes[k].title, shapes[k].status,
                                   shapes[k].group, shapes[k].type,
                                   shapes[k].iterable, << >>)]

\* processAccount of the only account, run without a proxy, suspended where
\* retryApiRequest has returned the task list at its first attempt
DailyInit ==
    /\ pc = "retrySettled"
    /\ tokens = getAccessTokens(TokenFileOf(1)).tokens
    /\ proxies = << >>
    /\ proxyFailures = << >>
    /\ i = 0
    /\ proxyString = NoProxy
    /\ selectedFrom = << >>
    /\ accAgent = NullAgent
    /\ profile = getUserProfileResult([email |-> "a@walme.io", nickname |-> ""])
    /\ tasks = EmptyTasks
    /\ dailyChallengeSuccess = FALSE
    /\ sweepIdx = 0
    /\ completedTaskCount = 0
    /\ failedTaskCount = 0
    /\ fn = "tasks"
    /\ retryAgent = NullAgent
    /\ attempt = 1
    /\ \E n \in 0..MaxTasks : \E shapes \in [1..n -> TaskShapes] :
          LET body == [isArray |-> TRUE, items |-> TaskListOf(shapes)]
          IN  /\ outs = << [ok |-> TRUE, val |-> body] >>
              /\ ret = [kind |-> "returned", val |-> body]
    /\ sleeps = << >>
    /\ isProxy = FALSE
    /\ calls = << [kind |-> "profile", id |-> 0, st |-> "ok"],
                  [kind |-> "tasks", id |-> 0, st |-> "ok"] >>
    /\ agentBuilds = 0
    /\ runs = 1
    /\ timers = 0

DailyNext ==
    \/ AfterTasks
    \/ DailyResponds
    \/ AfterDaily
    \/ SweepCallSucceeds
    \/ SweepCallFails
    \/ PacingElapses

DailySpec == DailyInit /\ [][DailyNext]_vars

\* the daily-challenge predicate as the claim words it
C11_IsDaily(t) ==
    \/ Includes(t.title, <<"7","-","D","A","Y"," ","C","h","a","l","l","e","n","g","e">>)
    \/ (t.group = "daily" /\ t.iterable = TRUE /\ t.type = "dummy")

\* the first task in list order that satisfies the predicate, 0 when none
C11_First(items) ==
    IF \E k \in 1..Len(items) : C11_IsDaily(items[k])
    THEN CHOOSE k \in 1..Len(items) :
            C11_IsDaily(items[k]) /\ \A j \in 1..(k - 1) : ~ C11_IsDaily(items[j])
    ELSE 0

\* the ids of the daily-challenge calls and of the sweep's calls so far
C11_CallIds(kinds) ==
    { calls[k].id : k \in { n \in 1..Len(calls) : calls[n].kind \in kinds } }

\* C11: a task is identified as the daily challenge exactly when its title
\* contains "7-DAY Challenge" or it has group daily, iterable true and type
\* dummy.  Once processDailyChallenge has run, the task it handled is the
\* first task of the list satisfying this: with no such task there is no
\* daily call and no success; a first such task already completed gives
\* success without a call; otherwise the only daily call carries its id.  And
\* the sweep, once finished, has called exactly the tasks with status new
\* that do not satisfy it.
C11_DailyDetection ==
    /\ pc \in { "dailyCall", "dailySettled", "sweepCall", "pacing", "accountSettled" } =>
          LET d == C11_First(tasks.items)
          IN  IF d = 0
              THEN C11_CallIds({ "daily" }) = {} /\ ~ dailyChallengeSuccess
              ELSE IF tasks.items[d].status = "completed"
              THEN C11_CallIds({ "daily" }) = {} /\ dailyChallengeSuccess
              ELSE C11_CallIds({ "daily" }) = { tasks.items[d].id }
    /\ pc = "accountSettled" =>
          C11_CallIds({ "task" }) =
              { tasks.items[k].id :
                  k \in { n \in 1..Len(tasks.items) :
                            /\ tasks.items[n].status = "new"
                            /\ ~ C11_IsDaily(tasks.items[n]) } }

\* the daily call is in flight for the second task, which has the three
\* fields and no marker in its title, after a first task that has group
\* daily and type dummy but is not iterable
C11_Witness ==
    /\ pc = "dailyCall"
    /\ Len(tasks.items) = 2
    /\ tasks.items[1].group = "daily" /\ tasks.items[1].type = "dummy"
    /\ ~ tasks.items[1].iterable
    /\ ~ Includes(tasks.items[2].title, DailyTitle)
    /\ calls[Len(calls)] = [kind |-> "daily", id |-> 2, st |-> "pending"]

\* ------------------------------------------------------------------------
\* retryApiRequest's catch on every error of a bounded shape
\* ------------------------------------------------------------------------
\* error codes: absent, the two codes axios gives to HTTP error statuses,
\* and the codes of PROXY_ERROR_CODES
AnyCodes == { "", "ERR_BAD_REQUEST", "ERR_BAD_RESPONSE" } \cup PROXY_ERROR_CODES

\* messages: absent, the message of an HTTP 404, the message of an axios
\* timeout, a lower-case near miss, and every substring of the classifier
\* inside a longer message
AnyMessages ==
    { << >>,
      ErrNotFound.message,
      <<"t","i","m","e","o","u","t"," ","o","f"," ","1","5","0","0","0","m","s"," ","e","x","c","e","e","d","e","d">>,
      <<"r","e","a","d"," ","e","c","o","n","n","r","e","s","e","t">> }
    \cup { <<"E","r","r",":"," ">> \o m \o <<" ","(","x",")">> : m \in NetworkMessages }

\* response statuses: 0 is an error without response
AnyStatuses == { 0, 404, 407, 500, 502, 503, 504 }

AnyErrors == { MkError(c, m, st) : c \in AnyCodes, m \in AnyMessages, st \in AnyStatuses }

\* retryApiRequest(getTasks) of the only account, with the only proxy,
\* suspended in its last attempt after two attempts that ended in HTTP 404
ClassifyInit ==
    /\ pc = "request"
    /\ tokens = getAccessTokens(TokenFileOf(1)).tokens
    /\ proxies = getProxies(ProxyFileOf(1))
    /\ proxyFailures = [p \in Range(proxies) |-> 0]
    /\ i = 0
    /\ proxyString = proxies[1]
    /\ selectedFrom = proxyFailures
    /\ accAgent = createProxyAgent(proxyString)
    /\ profile = getUserProfileResult([email |-> "a@walme.io", nickname |-> ""])
    /\ tasks = EmptyTasks
    /\ dailyChallengeSuccess = FALSE
    /\ sweepIdx = 0
    /\ completedTaskCount = 0
    /\ failedTaskCount = 0
    /\ fn = "tasks"
    /\ retryAgent = createProxyAgent(proxyString)
    /\ attempt = MAX_RETRIES
    /\ outs = << [ok |-> FALSE, err |-> ErrNotFound, http |-> ErrNotFound],
                 [ok |-> FALSE, err |-> ErrNotFound, http |-> ErrNotFound] >>
    /\ sleeps = << getBackoffDelay(1), getBackoffDelay(2) >>
    /\ ret = NoRet
    /\ isProxy = FALSE
    /\ calls = << [kind |-> "profile", id |-> 0, st |-> "ok"],
                  [kind |-> "tasks", id |-> 0, st |-> "failed"],
                  [kind |-> "tasks", id |-> 0, st |-> "failed"],
                  [kind |-> "tasks", id |-> 0, st |-> "pending"] >>
    /\ agentBuilds = 3
    /\ runs = 1
    /\ timers = 0

\* requestFn rejects with any error of the bounded shape
RequestRejects ==
    /\ pc = "request"
    /\ \E e \in AnyErrors : Catch(e)

ClassifyNext ==
    \/ RequestRejects
    \/ AfterTasks
    \/ AfterAccount
    \/ AcctDelayElapses

ClassifySpec == ClassifyInit /\ [][ClassifyNext]_vars

\* the ten connection codes: reset, timed out, refused, host unreachable,
\* DNS failure, socket timeout, TLS protocol error, aborted, address
\* unavailable, network unreachable
C12_Codes ==
    { "ECONNRESET", "ETIMEDOUT", "ECONNREFUSED", "EHOSTUNREACH", "ENOTFOUND",
      "ESOCKETTIMEDOUT", "EPROTO", "ECONNABORTED", "EADDRNOTAVAIL",
      "ENETUNREACH" }

C12_MessageMatches(e) == \E m \in NetworkMessages : Includes(e.message, m)

\* C12: the verdict of the classifier on the error of a failed attempt is
\* "proxy error" exactly when the error's code is one of the ten connection
\* codes, or its message contains one of the network-failure substrings, or
\* its response status is 407, 502, 503 or 504.  So code ECONNRESET is always
\* a proxy error, a 404 with no code and no matching message is an
\* application error, and so is a null error.
C12_Classification ==
    /\ Cardinality(C12_Codes) = 10
    /\ ~ isProxyError(NoError)
    /\ (pc \in { "retrySettled", "accountSettled" } /\ ret.kind = "thrown" /\ fn = "tasks") =>
          LET e == ret.err
          IN  /\ isProxy <=> \/ e.code \in C12_Codes
                             \/ C12_MessageMatches(e)
                             \/ e.status \in { 407, 502, 503, 504 }
              /\ e.code = "ECONNRESET" => isProxy
              /\ (e.status = 404 /\ e.code = "" /\ ~ C12_MessageMatches(e)) => ~ isProxy

\* the last attempt failed with HTTP 503, a code that is no connection code
\* and no message, and was classified as a proxy error
C12_Witness ==
    /\ pc = "retrySettled"
    /\ ret.kind = "thrown"
    /\ ret.err = MkError("ERR_BAD_RESPONSE", << >>, 503)
    /\ isProxy

\* the token file exists and has a line that is not blank
C13_HasToken(file) ==
    /\ file.exists
    /\ \E k \in 1..Len(file.lines) :
          \E j \in 1..Len(file.lines[k]) : file.lines[k][j] # " "

\* C13 as claimed: once loading the tokens has failed the process is aborted,
\* so startup is never attempted again.
C13_FatalStartupAsClaimed ==
    [][ pc = "restartWait" => pc' = "restartWait" ]_vars

\* C13 as amended: loading the tokens fails exactly when the token file is
\* missing or has no non-blank line.  The run of runBot that failed ends
\* without entering the scheduler loop and without processing an account, and
\* the process is not aborted: that run armed one 60-second timer, and when it
\* fires runBot starts again by reading the token file again.  The scheduler
\* loop is only entered by a run that loaded at least one token.
C13_FailedStartupRestarts ==
    /\ [] ( /\ \A file \in TokenFiles :
                  getAccessTokens(file).threw <=> ~ C13_HasToken(file)
            /\ pc \in { "readTokens", "restartWait" } =>
                  /\ tokens = << >>
                  /\ calls = << >>
                  /\ fn = "none"
            /\ pc \notin { "readTokens", "restartWait" } => Len(tokens) > 0
            /\ pc = "restartWait" => (runs = 0 /\ timers = 1) )
    /\ [][ /\ pc = "restartWait" =>
                 (pc' = "readTokens" /\ runs' = 1 /\ timers' = 0)
           /\ pc = "readTokens" => pc' \in { "restartWait", "readProxies" } ]_vars

\* loading the tokens has failed: the run has ended and the timer is armed
C13_Witness ==
    /\ pc = "restartWait"
    /\ runs = 0
    /\ timers = 1
    /\ tokens = << >>

\* the outbound HTTP calls of the current account that have not settled
C14_InFlight == { k \in 1..Len(calls) : calls[k].st = "pending" }

\* C14: in every reachable state at most one call of runBot is active, and a
\* restart timer is armed only when none is; at most one outbound HTTP call
\* is in flight, and it is the last one issued; between accounts no call is
\* in flight.  The first call of an account is issued only by the step that
\* ends the reading of the proxies, the inter-account delay or the 3-hour
\* wait, and the index moves to the next account only when the inter-account
\* delay of the previous one has elapsed.
C14_NoParallelCalls ==
    /\ [] ( /\ runs \in { 0, 1 }
            /\ runs + timers = 1
            /\ Cardinality(C14_InFlight) <= 1
            /\ C14_InFlight \subseteq { Len(calls) }
            /\ C14_InFlight # {} <=> pc \in { "request", "dailyCall", "sweepCall" }
            /\ pc \notin AccountPcs => calls = << >> )
    /\ [][ /\ (calls = << >> /\ calls' # << >>) =>
                 /\ pc \in { "readProxies", "acctDelay", "cycleWait" }
                 /\ calls' = << [kind |-> "profile", id |-> 0, st |-> "pending"] >>
           /\ i' # i => (pc = "acctDelay" /\ i' = i + 1) \/ (pc = "cycleWait" /\ i' = 0) ]_vars

\* the second account of a pass has a completion call in flight after two
\* fetches and an earlier completion call
C14_Witness ==
    /\ pc = "sweepCall"
    /\ i = 1
    /\ Len(calls) >= 4
    /\ C14_InFlight = { Len(calls) }

\* ------------------------------------------------------------------------
\* The scheduler loop when every call settles and every timer fires
\* ------------------------------------------------------------------------
\* runBot suspended at the 3-hour wait with MaxTokens tokens and MaxProxies
\* proxies loaded, each proxy with a count of 0 or of MaxFailures
ProgressInit ==
    /\ SelectInit
    /\ pc = "cycleWait"
    /\ Len(proxies) = MaxProxies
    /\ \A p \in Range(proxies) : proxyFailures[p] \in { 0, MaxFailures }

\* Every outbound call eventually settles and every timer eventually fires:
\* the program never stays suspended for ever at an await.
FairSelectSpec == ProgressInit /\ [][SelectNext]_vars /\ WF_vars(SelectNext)

\* C15: with the tokens loaded, each pass of the loop takes the tokens in
\* increasing index order, one at a time: the 3-hour wait ends in the start
\* of account 0, an account keeps its index until it ends in its
\* inter-account delay, and the delay ends in the start of the next index or,
\* after the last token, in the 3-hour wait.  When every call settles and
\* every timer fires, every token's account is processed again and again and
\* so is the 3-hour wait, whatever the proxy failure counts are.
C15_SchedulerProgress ==
    /\ [][ /\ pc = "cycleWait" => (pc' = "request" /\ i' = 0)
           /\ pc \in AccountPcs => (i' = i /\ pc' \in AccountPcs \cup { "acctDelay" })
           /\ pc = "acctDelay" =>
                 IF i + 1 < Len(tokens)
                 THEN pc' = "request" /\ i' = i + 1
                 ELSE pc' = "cycleWait" /\ i' = i ]_vars
    /\ \A k \in 0..(MaxTokens - 1) :
          []<>(k < Len(tokens) => (pc = "acctDelay" /\ i = k))
    /\ []<>(pc = "cycleWait")

\* a pass has started with account 0 although both proxies had 3 failures
C15_Witness ==
    /\ pc = "request"
    /\ i = 0
    /\ Len(proxies) = 2
    /\ \A k \in 1..2 : selectedFrom[proxies[k]] = 3

\* ------------------------------------------------------------------------
\* createProxyAgent on every proxy string of a bounded shape
\* ------------------------------------------------------------------------
ProxySchemes ==
    { <<"h","t","t","p">>, <<"h","t","t","p","s">>,
      <<"s","o","c","k","s","4">>, <<"s","o","c","k","s","5">> }
ProxyHosts == { <<"h","1">>, <<"H","1">> }
ProxyPorts == { <<"8","0">>, <<"8","1">>, <<"4","4","3">>, <<"1","0","8","0">> }
ProxyUser == <<"u">>
ProxyPass == <<"p","w">>

\* the four shapes of a proxy line
ShapeURL(scheme, host, port) == scheme \o <<":","/","/">> \o host \o <<":">> \o port
ShapeURLAuth(scheme, user, pass, host, port) ==
    scheme \o <<":","/","/">> \o user \o <<":">> \o pass \o <<"@">> \o host \o <<":">> \o port
ShapeHostPort(host, port) == host \o <<":">> \o port
ShapeHostPortAuth(host, port, user, pass) ==
    host \o <<":">> \o port \o <<":">> \o user \o <<":">> \o pass
ShapeAuthAtHostPort(user, pass, host, port) ==
    user \o <<":">> \o pass \o <<"@">> \o host \o <<":">> \o port

WellShapedProxies ==
    { ShapeURL(sc, h, p) : sc \in ProxySchemes, h \in ProxyHosts, p \in ProxyPorts }
    \cup { ShapeURLAuth(sc, ProxyUser, ProxyPass, h, p) :
             sc \in ProxySchemes, h \in ProxyHosts, p \in ProxyPorts }
    \cup { ShapeHostPort(h, p) : h \in ProxyHosts, p \in ProxyPorts }
    \cup { ShapeHostPortAuth(h, p, ProxyUser, ProxyPass) : h \in ProxyHosts, p \in ProxyPorts }
    \cup { ShapeAuthAtHostPort(ProxyUser, ProxyPass, h, p) : h \in ProxyHosts, p \in ProxyPorts }

\* lines without a host or without a port: a host alone, an empty port, an
\* empty host, a URL without port, three fields without "@"
MalformedProxies ==
    { <<"h","1">>, <<"h","1",":">>, <<":","8","1">>,
      <<"h","t","t","p",":","/","/","h","1">>,
      <<"s","o","c","k","s","5",":","/","/","h","1">>,
      <<"h","1",":","8","1",":","u">> }

\* runBot suspended at the read of proxies.txt, with one token loaded
ParseInit ==
    /\ pc = "readProxies"
    /\ tokens = getAccessTokens(TokenFileOf(1)).tokens
    /\ proxies = << >>
    /\ proxyFailures = << >>
    /\ i = 0
    /\ proxyString = NoProxy
    /\ selectedFrom = << >>
    /\ accAgent = NullAgent
    /\ profile = NoProfile
    /\ tasks = EmptyTasks
    /\ dailyChallengeSuccess = FALSE
    /\ sweepIdx = 0
    /\ completedTaskCount = 0
    /\ failedTaskCount = 0
    /\ fn = "none"
    /\ retryAgent = NullAgent
    /\ attempt = 0
    /\ outs = << >>
    /\ sleeps = << >>
    /\ ret = NoRet
    /\ isProxy = FALSE
    /\ calls = << >>
    /\ agentBuilds = 0
    /\ runs = 1
    /\ timers = 0

\* fs.readFile of proxies.txt settles with one line, well shaped or not, or
\* with no line
ProxiesReadAnyLine ==
    /\ pc = "readProxies"
    /\ \E lines \in { << >> } \cup { << l >> : l \in WellShapedProxies \cup MalformedProxies } :
          LoadProxies([exists |-> TRUE, lines |-> lines])

\* the profile fetch of the first account, up to its return or throw
ParseNext ==
    \/ ProxiesReadAnyLine
    \/ RequestSucceeds
    \/ RequestFails
    \/ BackoffElapses

ParseSpec == ParseInit /\ [][ParseNext]_vars

\* the transport handle is built and has the given host and port
C16_Parsed(agent, host, port) ==
    /\ agent.kind # "null"
    /\ agent.host = host
    /\ agent.port = port

\* C16: while an account runs with a proxy string of one of the four shapes,
\* the handle processAccount built from it is not null and carries the
\* literal host and port of the string; for the three shapes that are no full
\* URL it is an http handle.
C16_ParserLiteralFields ==
    pc \in AccountPcs =>
        \A h \in ProxyHosts, p \in ProxyPorts :
            /\ \A sc \in ProxySchemes :
                  proxyString \in { ShapeURL(sc, h, p),
                                    ShapeURLAuth(sc, ProxyUser, ProxyPass, h, p) }
                     => C16_Parsed(accAgent, h, p)
            /\ proxyString \in { ShapeHostPort(h, p),
                                 ShapeHostPortAuth(h, p, ProxyUser, ProxyPass),
                                 ShapeAuthAtHostPort(ProxyUser, ProxyPass, h, p) }
                  => (C16_Parsed(accAgent, h, p) /\ accAgent.kind = "http")

\* C17: a proxy string that yields no host or no port makes createProxyAgent
\* return null (the invalid-format error is caught inside), and so does the
\* empty string.  An account selected with such a string is processed all the
\* same: the run is not ended, every attempt of retryApiRequest is made with a
\* null handle, and attempts and backoff sleeps follow the usual schedule: at
\* most 3 attempts, one sleep after each failure but the third, a return at
\* the first success and a throw after the third failure.
C17_MalformedProxyNotFatal ==
    /\ \A s \in MalformedProxies \cup { << >> } : createProxyAgent(s) = NullAgent
    /\ (proxyString \in MalformedProxies /\ pc \in AccountPcs) =>
          /\ runs = 1 /\ timers = 0
          /\ accAgent = NullAgent
          /\ retryAgent = NullAgent
          /\ pc = "request" => (attempt = Len(outs) + 1 /\ attempt <= MAX_RETRIES)
          /\ pc = "backoff" => (attempt = Len(outs) /\ attempt < MAX_RETRIES)
          /\ Len(sleeps) = Cardinality({ k \in FailedAttempts : k < MAX_RETRIES })
          /\ \A k \in 1..Len(sleeps) : sleeps[k] = getBackoffDelay(k)
          /\ pc = "retrySettled" =>
                IF outs[Len(outs)].ok
                THEN ret = [kind |-> "returned", val |-> outs[Len(outs)].val]
                ELSE Len(outs) = MAX_RETRIES /\ ret.kind = "thrown"

\* the profile fetch of an account whose proxy line has no port returned at
\* its second attempt, after a proxy-classified failure and a rebuild that
\* gave null again
C17_Witness ==
    /\ pc = "retrySettled"
    /\ proxyString = <<"h","1">>
    /\ ret.kind = "returned"
    /\ Len(outs) = 2
    /\ isProxy
    /\ agentBuilds = 3
    /\ retryAgent = NullAgent

\* C18: the handle of retryApiRequest is rebuilt only in the step that
\* follows the backoff sleep and issues the next attempt, and there exactly
\* when the failed attempt was classified as a proxy error and a proxy string
\* was supplied; the rebuilt handle is the one createProxyAgent gives for the
\* proxy string.  In every other case, and while an attempt is in flight or
\* fails, the handle is the same as before and nothing is built.
C18_HandleRebuildRule ==
    [][ /\ pc = "backoff" =>
              /\ pc' = "request" /\ attempt' = attempt + 1 /\ attempt < MAX_RETRIES
              /\ IF isProxy /\ proxyString # << >>
                 THEN /\ agentBuilds' = agentBuilds + 1
                      /\ retryAgent' = createProxyAgent(proxyString)
                 ELSE /\ agentBuilds' = agentBuilds
                      /\ retryAgent' = retryAgent
        /\ pc = "request" =>
              /\ agentBuilds' = agentBuilds
              /\ retryAgent' = retryAgent
              /\ (pc' = "backoff" => isProxy' = isProxyError(outs'[Len(outs')].err)) ]_vars

\* the third attempt of a task-list fetch with a proxy is in flight: the
\* first failure was an application error and built nothing, the second was
\* a proxy error and was followed by a rebuild
C18_Witness ==
    /\ pc = "request"
    /\ fn = "tasks"
    /\ attempt = 3
    /\ proxyString # << >>
    /\ outs[1].err = ErrNotFound
    /\ outs[2].err = ErrReset
    /\ Len(calls) = 4
    /\ agentBuilds = 4

\* C19: whenever an attempt of retryApiRequest has failed, for the profile
\* fetch as for the task-list fetch, the verdict retryApiRequest uses equals
\* the classifier's verdict on the HTTP failure behind the thrown error; so a
\* profile fetch that failed with status 407, 502, 503 or 504 or with a
\* connection code is handled as a proxy error.
C19_WrappedCallsClassified ==
    (Len(outs) > 0 /\ ~ outs[Len(outs)].ok) =>
        isProxy = isProxyError(outs[Len(outs)].http)

\* the number of completion calls the sweep of the current account has issued
C20_Issued == Cardinality({ k \in 1..Len(calls) : calls[k].kind \in { "task", "child" } })

\* C20: every completion call of the sweep but the first is issued by the
\* step that ends a pacing delay: after a completion call, successful or
\* failed, the next one is not issued before a pacing delay has elapsed.
C20_PacingBetweenCalls ==
    [][ (C20_Issued > 0 /\ C20_Issued' > C20_Issued) => pc = "pacing" ]_vars

\* the calls of the given kinds that settled with the given outcome
C21_Settled(kinds, st) ==
    Cardinality({ k \in 1..Len(calls) : calls[k].kind \in kinds /\ calls[k].st = st })

\* C21: all through the sweep and at its end, completedTaskCount is the
\* number of completion calls of the sweep (task or child) that succeeded and
\* failedTaskCount the number that failed, so at the end of the sweep their
\* sum is the number of completion calls issued; the daily-challenge call is
\* counted in neither.  A list whose only pending task has no child with
\* status new or failed ends with both counters at 0.
C21_SweepCounters ==
    pc \in { "sweepCall", "pacing", "accountSettled" } =>
        /\ completedTaskCount = C21_Settled({ "task", "child" }, "ok")
        /\ failedTaskCount = C21_Settled({ "task", "child" }, "failed")
        /\ C9_SweepDone =>
              /\ completedTaskCount + failedTaskCount = Len(C9_SweepLog)
              /\ tasks.items = TaskListC =>
                    (completedTaskCount = 0 /\ failedTaskCount = 0)

\* a sweep ended with one completion call that succeeded and one that
\* failed, after a daily-challenge call that succeeded
C21_Witness ==
    /\ C9_SweepDone
    /\ C21_Settled({ "daily" }, "ok") = 1
    /\ completedTaskCount = 1
    /\ failedTaskCount = 1

\* the completion calls the sweep owes for the current task list: one per
\* pending task without children and per eligible child of a pending task
C22_Owed ==
    C9_Expected(tasks.items,
                { k \in 1..Len(tasks.items) : C9_MatchesDaily(tasks.items[k]) })

\* the position in the call log of the completion call for (kind, id), 0
\* when it was not issued
C22_IssuedAt(call) ==
    IF \E n \in 1..Len(calls) : calls[n].kind = call.kind /\ calls[n].id = call.id
    THEN CHOOSE n \in 1..Len(calls) : calls[n].kind = call.kind /\ calls[n].id = call.id
    ELSE 0

\* C22: when processAccount has ended after fetching a task list, no failed
\* completion call has suppressed a later one: after a failed daily-challenge
\* call every completion call owed by the sweep was issued, and after a
\* failed child or task call every owed call that comes later in list order
\* (later siblings, then later tasks and their children) was issued.
C22_FailureIsolation ==
    C9_SweepDone =>
        \A k \in 1..Len(calls) :
            calls[k].st = "failed" =>
                /\ calls[k].kind = "daily" =>
                      \A c \in C22_Owed : C22_IssuedAt(c) > k
                /\ calls[k].kind \in { "task", "child" } =>
                      \A c \in C22_Owed :
                          C9_Place(tasks.items, c)
                              > C9_Place(tasks.items, [kind |-> calls[k].kind, id |-> calls[k].id])
                          => C22_IssuedAt(c) > k

\* an account ended after a failed daily-challenge call and a failed call
\* for child 121, each followed by the calls that were still owed
C22_Witness ==
    /\ C9_SweepDone
    /\ tasks.items = TaskListB
    /\ \E k \in 1..Len(calls) : calls[k].kind = "daily" /\ calls[k].st = "failed"
    /\ \E k \in 1..Len(calls) :
          /\ calls[k] = [kind |-> "child", id |-> 121, st |-> "failed"]
          /\ k < Len(calls)
          /\ calls[k + 1].id = 122

\* a run of runBot that has not loaded anything yet holds no token, no proxy,
\* no counter and no trace of an account
C23_FromScratch ==
    /\ tokens = << >>
    /\ proxies = << >>
    /\ proxyFailures = << >>
    /\ i = 0
    /\ proxyString = NoProxy
    /\ selectedFrom = << >>
    /\ calls = << >>
    /\ outs = << >>
    /\ fn = "none"
    /\ agentBuilds = 0

\* C23: an exception that escapes the body of runBot arms exactly one restart
\* timer and ends the run (a timer is armed by no other step, and never more
\* than one is armed); while the timer is pending no account is processed and
\* no run is active; when it fires exactly one run starts, and it starts from
\* scratch: it reads the token file and then the proxy file again, and the
\* step that ends the reading of the proxies enters the loop at account 0 with
\* a counter of 0 for every proxy just loaded.
C23_CrashRestart ==
    /\ [] ( /\ timers \in { 0, 1 }
            /\ runs + timers = 1
            /\ pc = "restartWait" <=> timers = 1
            /\ pc \in { "restartWait", "readTokens" } => C23_FromScratch )
    /\ [][ /\ timers' > timers =>
                 /\ pc = "readTokens"
                 /\ pc' = "restartWait"
                 /\ timers' = timers + 1
                 /\ runs' = runs - 1
           /\ runs' > runs =>
                 /\ pc = "restartWait"
                 /\ pc' = "readTokens"
                 /\ runs' = runs + 1
                 /\ timers' = timers - 1
           /\ pc = "readProxies" =>
                 /\ pc' = "request"
                 /\ i' = 0
                 /\ proxies' \in { getProxies(file) : file \in ProxyFiles }
                 /\ DOMAIN proxyFailures' = Range(proxies')
                 /\ \A p \in DOMAIN proxyFailures' : proxyFailures'[p] = 0
                 /\ Len(calls') = 1 ]_vars

\* a crash has armed one restart timer, the run has ended and nothing of it
\* is left
C23_Witness ==
    /\ pc = "restartWait"
    /\ timers = 1
    /\ runs = 0
    /\ C23_FromScratch

\* C24: the counter map has exactly one counter for every loaded proxy, each
\* a natural number.  The step that ends the reading of the proxies creates
\* every counter at 0.  Any other step leaves the set of counters as it is
\* and either changes no counter, or is the step after processAccount and
\* adds exactly 1 to the counter of the proxy selected for that account, or
\* is a selection that found no proxy under 3 failures and sets every counter
\* to 0.
C24_CounterSteps ==
    /\ [] ( /\ DOMAIN proxyFailures = Range(proxies)
            /\ \A p \in DOMAIN proxyFailures : proxyFailures[p] \in Nat )
    /\ [][ IF pc = "readProxies"
           THEN \A p \in DOMAIN proxyFailures' : proxyFailures'[p] = 0
           ELSE /\ DOMAIN proxyFailures' = DOMAIN proxyFailures
                /\ \/ proxyFailures' = proxyFailures
                   \/ /\ pc = "accountSettled"
                      /\ Len(proxyString) > 0
                      /\ proxyFailures' =
                            [proxyFailures EXCEPT ![proxyString] = @ + 1]
                   \/ /\ pc \in { "acctDelay", "cycleWait" }
                      /\ pc' = "request"
                      /\ \A p \in DOMAIN proxyFailures : proxyFailures[p] >= UNHEALTHY
                      /\ \A p \in DOMAIN proxyFailures : proxyFailures'[p] = 0 ]_vars

\* an account has run to its end after a selection that found one proxy at 3
\* failures and the other at 3 or more, and set both counters to 0
C24_Witness ==
    /\ pc = "accountSettled"
    /\ Len(proxies) = 2
    /\ selectedFrom[proxies[1]] = UNHEALTHY
    /\ selectedFrom[proxies[2]] >= UNHEALTHY
    /\ proxyFailures[proxies[1]] = 0
    /\ proxyFailures[proxies[2]] = 0
====
